---- MODULE Spec2Model ----
(***************************************************************************)
(* aicmd: a command line assistant that asks an LLM provider for a bash    *)
(* command, shows it, runs it on confirmation and, when the run fails,     *)
(* sends the output back to the provider and offers the fix.               *)
(*                                                                         *)
(* Texts (requests, replies, commands, output) are sequences of lexical    *)
(* tokens: single characters, and the two JSON keys "command" and          *)
(* "description" (a quoted key with its colon).                            *)
(***************************************************************************)
EXTENDS Integers, Sequences, FiniteSets, TLC

VARIABLES
    env,          \* os.Getenv: variable name -> value ("" when unset)
    flags,        \* flag.Parse: [forceOpenAI, forceOllama, model]
    args,         \* flag.Args(): the positional arguments
    client,       \* the Client getClient returned (NoClient before)
    messages,     \* the conversation history
    pc,           \* position of main
    command,      \* main's local: the command to run
    fixResponse,  \* main's local: the parsed fix reply
    response,     \* the trimmed, lower-cased answer last read at a prompt
    stdout,       \* bytes.Buffer of the last run
    stderr,       \* bytes.Buffer of the last run
    exitStatus,   \* <<code>> once the process has ended, <<>> before
    out,          \* the last report printed (prompts and subprocess output apart)
    ncalls,       \* number of GenerateCompletion calls made
    launched,     \* the command line of the last subprocess launched
    nlaunch,      \* number of subprocesses launched
    chain,        \* failed runs since the last "Run it now?" confirmation
    gen,          \* the last GenerateCompletion call: (completion, err) and its request
    wire,         \* what the transport delivered to the last GenerateCompletion call
    runErr        \* the err of the last cmd.Run(): "nil", "exit" or "launch" ("none" before)

vars == <<env, flags, args, client, messages, pc, command, fixResponse,
          response, stdout, stderr, exitStatus, out, ncalls, launched,
          nlaunch, chain, gen, wire, runErr>>

-----------------------------------------------------------------------------
(* Bounds of the model *)

\* appends to the history stop at this length
MaxTurns == 4

-----------------------------------------------------------------------------
(* strings *)

IsSpace(c) == c \in {" ", "\n", "\t"}

RECURSIVE TrimLeft(_)
TrimLeft(s) ==
    IF s = <<>> THEN s
    ELSE IF IsSpace(Head(s)) THEN TrimLeft(Tail(s)) ELSE s

RECURSIVE TrimRight(_)
TrimRight(s) ==
    IF s = <<>> THEN s
    ELSE IF IsSpace(s[Len(s)]) THEN TrimRight(SubSeq(s, 1, Len(s) - 1)) ELSE s

\* strings.TrimSpace
TrimSpace(s) == TrimRight(TrimLeft(s))

LowerChar(c) ==
    CASE c = "Y" -> "y"
      [] c = "E" -> "e"
      [] c = "S" -> "s"
      [] c = "F" -> "f"
      [] c = "N" -> "n"
      [] OTHER -> c

\* strings.ToLower
ToLower(s) == [i \in DOMAIN s |-> LowerChar(s[i])]

RECURSIVE Join(_, _)
\* strings.Join
Join(elems, sep) ==
    IF elems = <<>> THEN <<>>
    ELSE IF Len(elems) = 1 THEN elems[1]
    ELSE elems[1] \o sep \o Join(Tail(elems), sep)

-----------------------------------------------------------------------------
(* encoding/json into CommandResponse *)

Quote == "\""
KeyTokens == {"command", "description", "other"}

\* index of the first quote at or after i, 0 when there is none
RECURSIVE NextQuote(_, _)
NextQuote(s, i) ==
    IF i > Len(s) THEN 0
    ELSE IF s[i] = Quote THEN i ELSE NextQuote(s, i + 1)

\* members of an object from index i up to the closing brace at index last:
\* key value (, key value)*.  A string value sets the field of its key, a
\* number value for a string field is a type error.
RECURSIVE DecodeMembers(_, _, _, _)
DecodeMembers(s, i, last, acc) ==
    IF i + 1 >= last \/ s[i] \notin KeyTokens THEN [acc EXCEPT !.err = "syntax"]
    ELSE LET key == s[i]
             isStr == s[i + 1] = Quote
             close == IF isStr THEN NextQuote(s, i + 2) ELSE 0
             isNum == s[i + 1] = "7"
             after == IF isStr THEN close + 1 ELSE i + 2
             val == IF isStr /\ close # 0 THEN SubSeq(s, i + 2, close - 1) ELSE <<>>
             acc2 == IF isNum
                     THEN IF key = "other" \/ acc.err # "nil" THEN acc
                          ELSE [acc EXCEPT !.err = "type"]
                     ELSE IF key = "command" THEN [acc EXCEPT !.Command = val]
                     ELSE IF key = "description" THEN [acc EXCEPT !.Description = val]
                     ELSE acc
         IN IF ~isNum /\ (~isStr \/ close = 0 \/ close >= last)
            THEN [acc EXCEPT !.err = "syntax"]
            ELSE IF after = last THEN acc2
            ELSE IF s[after] = "," THEN DecodeMembers(s, after + 1, last, acc2)
            ELSE [acc EXCEPT !.err = "syntax"]

ZeroResponse == [Command |-> <<>>, Description |-> <<>>, err |-> "nil"]

\* the JSON value s (surrounding white space removed) decoded into a zero
\* CommandResponse: null leaves it as it is, an object sets its fields
DecodeValue(s) ==
    IF s = <<"n", "u", "l", "l">> THEN ZeroResponse
    ELSE IF Len(s) < 2 \/ s[1] # "{" \/ s[Len(s)] # "}"
         THEN [ZeroResponse EXCEPT !.err = "syntax"]
    ELSE IF Len(s) = 2 THEN ZeroResponse
    ELSE DecodeMembers(s, 2, Len(s), ZeroResponse)

\* an Unmarshal whose error is dropped
Unmarshal_ErrorDropped(text) == [DecodeValue(TrimSpace(text)) EXCEPT !.err = "nil"]

\* json.Unmarshal([]byte(text), &CommandResponse{}): err is "nil", "syntax"
\* or "type"; the fields are meaningful when err = "nil"
Unmarshal(text) == DecodeValue(TrimSpace(text))

-----------------------------------------------------------------------------
(* provider resolution *)

NoClient == [kind |-> "none", model |-> "", endpoint |-> "", err |-> "nil"]

OpenAIClient(apiKey, model) ==
    [kind |-> "OpenAI", model |-> model, endpoint |-> apiKey, err |-> "nil"]

OllamaClient(baseURL, model) ==
    [kind |-> "Ollama", model |-> model, endpoint |-> baseURL, err |-> "nil"]

AnthropicClient(apiKey, model) ==
    [kind |-> "Anthropic", model |-> model, endpoint |-> apiKey, err |-> "nil"]

ConfigError(msg) == [NoClient EXCEPT !.err = msg]

\* a default that fails when OLLAMA_API_BASE is set without a model
getClientDefault_NoFallThrough(model) ==
    LET ollamaBase == env["OLLAMA_API_BASE"]
        envModel == env["OLLAMA_MODEL"]
        apiKey == env["OPENAI_API_KEY"]
    IN IF ollamaBase # "" /\ model # "" THEN OllamaClient(ollamaBase, model)
       ELSE IF ollamaBase # "" /\ envModel # "" THEN OllamaClient(ollamaBase, envModel)
       ELSE IF ollamaBase # ""
       THEN ConfigError("no model specified and OLLAMA_MODEL not found in environment")
       ELSE IF apiKey = "" THEN ConfigError("neither Ollama nor OpenAI configuration found")
       ELSE OpenAIClient(apiKey, model)

\* the default branch of getClient: Ollama first, then OpenAI
getClientDefault(model) ==
    LET ollamaBase == env["OLLAMA_API_BASE"]
        envModel == env["OLLAMA_MODEL"]
        apiKey == env["OPENAI_API_KEY"]
    IN IF ollamaBase # "" /\ model # "" THEN OllamaClient(ollamaBase, model)
       ELSE IF ollamaBase # "" /\ envModel # "" THEN OllamaClient(ollamaBase, envModel)
       ELSE IF apiKey = "" THEN ConfigError("neither Ollama nor OpenAI configuration found")
       ELSE OpenAIClient(apiKey, model)

\* a resolution that falls back to the default when the forced provider is
\* not configured
getClient_FallsBack(forceOpenAI, forceOllama, model) ==
    IF forceOpenAI /\ forceOllama
    THEN ConfigError("cannot force both OpenAI and Ollama at the same time")
    ELSE IF forceOpenAI /\ env["OPENAI_API_KEY"] # ""
    THEN OpenAIClient(env["OPENAI_API_KEY"], model)
    ELSE IF forceOllama /\ env["OLLAMA_API_BASE"] # "" /\ model # ""
    THEN OllamaClient(env["OLLAMA_API_BASE"], model)
    ELSE IF forceOllama /\ env["OLLAMA_API_BASE"] # "" /\ env["OLLAMA_MODEL"] # ""
    THEN OllamaClient(env["OLLAMA_API_BASE"], env["OLLAMA_MODEL"])
    ELSE getClientDefault(model)

getClient(forceOpenAI, forceOllama, model) ==
    IF forceOpenAI /\ forceOllama
    THEN ConfigError("cannot force both OpenAI and Ollama at the same time")
    ELSE IF forceOpenAI
    THEN IF env["OPENAI_API_KEY"] = ""
         THEN ConfigError("OpenAI API key not found in environment")
         ELSE OpenAIClient(env["OPENAI_API_KEY"], model)
    ELSE IF forceOllama
    THEN IF env["OLLAMA_API_BASE"] = ""
         THEN ConfigError("OLLAMA_API_BASE not found in environment")
         ELSE IF model # "" THEN OllamaClient(env["OLLAMA_API_BASE"], model)
         ELSE IF env["OLLAMA_MODEL"] = ""
         THEN ConfigError("no model specified and OLLAMA_MODEL not found in environment")
         ELSE OllamaClient(env["OLLAMA_API_BASE"], env["OLLAMA_MODEL"])
    ELSE getClientDefault(model)

-----------------------------------------------------------------------------
(* the three GenerateCompletion variants.  Each takes the client, the      *)
(* history and what the transport delivers, and returns                    *)
(* [text, err, panic, req]: the (string, error) pair, whether the call     *)
(* panicked instead of returning, and the messages put on the wire.        *)

Returned(text, req) == [text |-> text, err |-> "nil", panic |-> FALSE, req |-> req]
Failed(msg, req) == [text |-> <<>>, err |-> msg, panic |-> FALSE, req |-> req]
Panicked(req) == [text |-> <<>>, err |-> "nil", panic |-> TRUE, req |-> req]

\* r = [err, choices]: CreateChatCompletion's error and resp.Choices (contents)
OpenAIGenerateCompletion(c, msgs, r) ==
    IF r.err THEN Failed("transport", msgs)
    ELSE IF r.choices = <<>> THEN Panicked(msgs)
    ELSE Returned(r.choices[1], msgs)

\* role conversion of the Anthropic variant
AnthropicRole(role) == IF role = "assistant" THEN "assistant" ELSE "user"

AnthropicMessages(msgs) ==
    [i \in DOMAIN msgs |-> [Role |-> AnthropicRole(msgs[i].Role), Content |-> msgs[i].Content]]

\* r = [doErr, readErr, status, decodable, content]: the outcome of client.Do,
\* of reading the body, the status code, whether the body decodes into
\* AnthropicResponse, and the texts of its content list
AnthropicGenerateCompletion(c, msgs, r) ==
    LET req == AnthropicMessages(msgs)
    IN IF r.doErr THEN Failed("error making request", req)
       ELSE IF r.readErr THEN Failed("error reading response", req)
       ELSE IF r.status # 200 THEN Failed("API request failed", req)
       ELSE IF ~r.decodable THEN Failed("error parsing response", req)
       ELSE IF Len(r.content) = 0 THEN Failed("empty response from API", req)
       ELSE Returned(r.content[1], req)

OllamaMessages(msgs) ==
    [i \in DOMAIN msgs |-> [Role |-> msgs[i].Role, Content |-> msgs[i].Content]]

\* a scanner loop that stops at the done record before taking its content
RECURSIVE OllamaScan_DoneFirst(_, _, _)
OllamaScan_DoneFirst(lines, i, fullContent) ==
    IF i > Len(lines) THEN [content |-> fullContent, err |-> "nil", broke |-> FALSE]
    ELSE LET line == lines[i]
         IN IF line.raw = "empty" THEN OllamaScan_DoneFirst(lines, i + 1, fullContent)
            ELSE IF line.raw = "bad"
            THEN [content |-> fullContent, err |-> "error decoding response line", broke |-> FALSE]
            ELSE IF line.done
            THEN [content |-> fullContent, err |-> "nil", broke |-> TRUE]
            ELSE OllamaScan_DoneFirst(lines, i + 1, fullContent \o line.content)

\* the scanner loop over lines i..: a line is [raw, content, done] with raw
\* "empty" (skipped), "bad" (not decodable) or "record"
\* a scanner loop that takes a stream without a done record for a failure
RECURSIVE OllamaScan_RequiresDone(_, _, _)
OllamaScan_RequiresDone(lines, i, fullContent) ==
    IF i > Len(lines) THEN [content |-> <<>>, err |-> "stream ended before done", broke |-> FALSE]
    ELSE LET line == lines[i]
         IN IF line.raw = "empty" THEN OllamaScan_RequiresDone(lines, i + 1, fullContent)
            ELSE IF line.raw = "bad"
            THEN [content |-> fullContent, err |-> "error decoding response line", broke |-> FALSE]
            ELSE IF line.done
            THEN [content |-> fullContent \o line.content, err |-> "nil", broke |-> TRUE]
            ELSE OllamaScan_RequiresDone(lines, i + 1, fullContent \o line.content)

RECURSIVE OllamaScan(_, _, _)
OllamaScan(lines, i, fullContent) ==
    IF i > Len(lines) THEN [content |-> fullContent, err |-> "nil", broke |-> FALSE]
    ELSE LET line == lines[i]
         IN IF line.raw = "empty" THEN OllamaScan(lines, i + 1, fullContent)
            ELSE IF line.raw = "bad"
            THEN [content |-> fullContent, err |-> "error decoding response line", broke |-> FALSE]
            ELSE IF line.done
            THEN [content |-> fullContent \o line.content, err |-> "nil", broke |-> TRUE]
            ELSE OllamaScan(lines, i + 1, fullContent \o line.content)

\* r = [doErr, status, lines, scanErr]: scanErr is an error of the scanner
\* met after the last line
OllamaGenerateCompletion(c, msgs, r) ==
    LET req == OllamaMessages(msgs)
        scan == OllamaScan(r.lines, 1, <<>>)
    IN IF r.doErr THEN Failed("transport", req)
       ELSE IF r.status # 200 THEN Failed("API request failed", req)
       ELSE IF scan.err # "nil" THEN Failed(scan.err, req)
       ELSE IF r.scanErr /\ ~scan.broke THEN Failed("error reading response stream", req)
       ELSE IF scan.content = <<>> THEN Failed("no valid response received from Ollama API", req)
       ELSE Returned(scan.content, req)

\* interface dispatch of Client.GenerateCompletion
GenerateCompletion(c, msgs, r) ==
    CASE c.kind = "OpenAI" -> OpenAIGenerateCompletion(c, msgs, r)
      [] c.kind = "Anthropic" -> AnthropicGenerateCompletion(c, msgs, r)
      [] c.kind = "Ollama" -> OllamaGenerateCompletion(c, msgs, r)

-----------------------------------------------------------------------------
(* history turns *)

Message(role, content) == [Role |-> role, Content |-> content]

\* fmt.Sprintf(prompt, userRequest): the instruction template ends in
\* "Request: %s"
PromptText(userRequest) == <<"PROMPT", "Request:", " ">> \o userRequest

\* a fix request that leaves the captured stderr out
FixRequestText_NoStderr(so, se) ==
    <<"FAILED", "\n", "stdout:", " ">> \o so \o <<"\n", "\n", "PLEASE_FIX">>

\* the fix request: the failure template around
\* fmt.Sprintf("stdout: %s\nstderr: %s\n", stdout, stderr)
FixRequestText(so, se) ==
    <<"FAILED", "\n", "stdout:", " ">> \o so \o <<"\n", "stderr:", " ">> \o se
        \o <<"\n", "\n", "PLEASE_FIX">>

\* fmt.Sprintf("Command output:\n%s", stdout)
OutputContextText(so) == <<"Command output:", "\n">> \o so

-----------------------------------------------------------------------------
(* inputs *)

\* flag.Args() of an invocation: none, or the two words of a request
ArgSets == { <<>>, << <<"a">>, <<"b">> >> }

EnvNames == {"ANTHROPIC_API_KEY", "OPENAI_API_KEY", "OLLAMA_API_BASE", "OLLAMA_MODEL"}
Environments ==
    { e \in [EnvNames -> {"", "m"}] : TRUE }
FlagSets == [forceOpenAI : BOOLEAN, forceOllama : BOOLEAN, model : {"", "m"}]

\* what ReadString('\n') returns at the follow-up prompt (<<>> at end of file)
RequestLines == { <<>>, <<"b", "\n">>, <<" ", "e", "x", "i", "t", "\n">> }

\* what ReadString('\n') returns at a yes/no prompt
AnswerLines ==
    { <<>>, <<" ", "Y", "\n">>, <<"y", "e", "s", "\n">>, <<"f", "\n">>, <<"n", "\n">> }

\* replies of a model
GoodReply ==
    <<"{", "command", Quote, "a", Quote, ",", "description", Quote, "d", Quote, "}">>
PaddedReply == <<"{", "command", Quote, " ", "b", " ", Quote, "}", "\n">>
FencedReply == <<"#", "{", "command", Quote, "a", Quote, "}", "#">>
TypeReply == <<"{", "command", "7", "}">>
Replies == {GoodReply, PaddedReply, FencedReply, TypeReply}

\* what go-openai's CreateChatCompletion delivers
OpenAITransport ==
    { [err |-> TRUE, choices |-> <<>>], [err |-> FALSE, choices |-> <<>>] }
    \cup { [err |-> FALSE, choices |-> <<t>>] : t \in Replies \cup {<<>>} }

\* what the HTTP exchange with the Anthropic API delivers
AnthropicTransport ==
    { [doErr |-> TRUE, readErr |-> FALSE, status |-> 0, decodable |-> FALSE, content |-> <<>>],
      [doErr |-> FALSE, readErr |-> TRUE, status |-> 200, decodable |-> FALSE, content |-> <<>>],
      [doErr |-> FALSE, readErr |-> FALSE, status |-> 401, decodable |-> TRUE, content |-> <<>>],
      [doErr |-> FALSE, readErr |-> FALSE, status |-> 200, decodable |-> FALSE, content |-> <<>>],
      [doErr |-> FALSE, readErr |-> FALSE, status |-> 200, decodable |-> TRUE, content |-> <<>>] }
    \cup { [doErr |-> FALSE, readErr |-> FALSE, status |-> 200, decodable |-> TRUE,
            content |-> <<t>>] : t \in Replies \cup {<<>>} }

Rec(content, done) == [raw |-> "record", content |-> content, done |-> done]
EmptyLine == [raw |-> "empty", content |-> <<>>, done |-> FALSE]
BadLine == [raw |-> "bad", content |-> <<>>, done |-> FALSE]

\* response streams of the Ollama API
OllamaStreams ==
    { <<Rec(SubSeq(GoodReply, 1, 5), FALSE), EmptyLine,
        Rec(SubSeq(GoodReply, 6, Len(GoodReply)), FALSE), Rec(<<>>, TRUE)>>,
      <<Rec(PaddedReply, TRUE), Rec(<<"x">>, FALSE)>>,
      <<Rec(SubSeq(GoodReply, 1, 3), FALSE), Rec(SubSeq(GoodReply, 4, 7), FALSE),
        Rec(SubSeq(GoodReply, 8, Len(GoodReply)), TRUE)>>,
      <<Rec(FencedReply, FALSE)>>,
      <<Rec(SubSeq(GoodReply, 1, 5), FALSE), EmptyLine,
        Rec(SubSeq(GoodReply, 6, Len(GoodReply)), FALSE)>>,
      <<Rec(SubSeq(GoodReply, 1, 5), FALSE), BadLine>>,
      <<Rec(<<>>, FALSE), Rec(<<>>, TRUE)>>,
      <<>> }

\* what the HTTP exchange with the Ollama API delivers
OllamaTransport ==
    { [doErr |-> TRUE, status |-> 0, lines |-> <<>>, scanErr |-> FALSE],
      [doErr |-> FALSE, status |-> 500, lines |-> <<>>, scanErr |-> FALSE] }
    \cup { [doErr |-> FALSE, status |-> 200, lines |-> l, scanErr |-> e] :
             l \in OllamaStreams, e \in BOOLEAN }

Transport(kind) ==
    CASE kind = "OpenAI" -> OpenAITransport
      [] kind = "Anthropic" -> AnthropicTransport
      [] kind = "Ollama" -> OllamaTransport

\* outcomes of cmd.Run(): a nil error, an *exec.ExitError with its code, or
\* another error (the shell could not be started); with the captured output
RunOutcomes ==
    { [kind |-> "ok", code |-> 0, stdout |-> so, stderr |-> <<>>] : so \in {<<>>, <<"o">>} }
    \cup { [kind |-> "exit", code |-> c, stdout |-> so, stderr |-> <<"e">>] :
             c \in {2, -1}, so \in {<<>>, <<"o">>} }
    \cup { [kind |-> "launch", code |-> 0, stdout |-> <<>>, stderr |-> <<>>] }

-----------------------------------------------------------------------------
(* main *)

Report(kind, err, shown) == [kind |-> kind, err |-> err, shown |-> shown]

NoResult == [text |-> <<>>, err |-> "nil", panic |-> FALSE, req |-> <<>>]

\* no call made yet
NoTransport == [err |-> FALSE, choices |-> <<>>]

\* os.Args: the program name, the flags given, the positional arguments
OsArgs ==
    <<"aicmd">>
        \o (IF flags.forceOpenAI THEN <<"--openai">> ELSE <<>>)
        \o (IF flags.forceOllama THEN <<"--ollama">> ELSE <<>>)
        \o (IF flags.model # "" THEN <<"--model", flags.model>> ELSE <<>>)
        \o args

\* a confirmation that takes every answer but "f" for a yes
IsYes_AllButFix(a) == a # <<"f">>

\* the answers that run the command
IsYes(a) == a = <<>> \/ a = <<"y">> \/ a = <<"y", "e", "s">>

\* an opt-in that takes the empty answer for a yes
IsOptIn_DefaultYes(a) == a = <<>> \/ a = <<"y">> \/ a = <<"y", "e", "s">>

\* the answers that add the output to the context
IsOptIn(a) == a = <<"y">> \/ a = <<"y", "e", "s">>

\* a loop that ends on "quit"
ExitWord_Quit == <<"q", "u", "i", "t">>

ExitWord == <<"e", "x", "i", "t">>

\* exec.Command("bash", "-c", command)
ShellCommand(cmd) == << <<"bash">>, <<"-c">>, cmd >>

\* a start that reports a configuration error and goes on into the loop
Startup_GoesOn ==
    /\ pc = "init"
    /\ IF Len(args) < 1
       THEN /\ out' = Report("usage", "nil", <<>>)
            /\ exitStatus' = <<1>>
            /\ pc' = "exited"
            /\ client' = client
       ELSE LET c == getClient(flags.forceOpenAI, flags.forceOllama, flags.model)
            IN IF c.err # "nil"
               THEN /\ out' = Report("config_error", c.err, <<>>)
                    /\ exitStatus' = exitStatus
                    /\ pc' = "await_input"
                    /\ client' = client
               ELSE /\ client' = c
                    /\ out' = Report("using", "nil", <<>>)
                    /\ exitStatus' = exitStatus
                    /\ pc' = "await_input"
    /\ UNCHANGED <<env, flags, args, messages, command, fixResponse, response,
                   stdout, stderr, ncalls, launched, nlaunch, chain, gen,
                   wire, runErr>>

\* argument check and getClient; exits with status 1 on failure
Startup ==
    /\ pc = "init"
    /\ IF Len(args) < 1
       THEN /\ out' = Report("usage", "nil", <<>>)
            /\ exitStatus' = <<1>>
            /\ pc' = "exited"
            /\ client' = client
       ELSE LET c == getClient(flags.forceOpenAI, flags.forceOllama, flags.model)
            IN IF c.err # "nil"
               THEN /\ out' = Report("config_error", c.err, <<>>)
                    /\ exitStatus' = <<1>>
                    /\ pc' = "exited"
                    /\ client' = client
               ELSE /\ client' = c
                    /\ out' = Report("using", "nil", <<>>)
                    /\ exitStatus' = exitStatus
                    /\ pc' = "await_input"
    /\ UNCHANGED <<env, flags, args, messages, command, fixResponse, response,
                   stdout, stderr, ncalls, launched, nlaunch, chain, gen,
                   wire, runErr>>

\* messages = append(messages, user turn of the request)
AddUserRequest(userRequest) ==
    /\ Len(messages) < MaxTurns
    /\ messages' = Append(messages, Message("user", PromptText(userRequest)))
    /\ pc' = "generating"
    /\ exitStatus' = exitStatus

\* a loop that takes the arguments again until a command was displayed
TakeRequest_ArgsUntilDisplayed ==
    /\ pc = "await_input"
    /\ IF (\A i \in DOMAIN messages : messages[i].Role = "user") /\ Len(OsArgs) > 1
       THEN AddUserRequest(Join(args, <<" ">>))
       ELSE \E input \in RequestLines :
              LET userRequest == TrimSpace(input)
              IN IF userRequest = ExitWord
                 THEN /\ pc' = "exited"
                      /\ exitStatus' = <<0>>
                      /\ messages' = messages
                 ELSE AddUserRequest(userRequest)
    /\ UNCHANGED <<env, flags, args, client, command, fixResponse, response,
                   stdout, stderr, out, ncalls, launched, nlaunch, chain, gen,
                   wire, runErr>>

\* top of the loop: the request from the arguments or from standard input
TakeRequest ==
    /\ pc = "await_input"
    /\ IF Len(messages) = 0 /\ Len(OsArgs) > 1
       THEN AddUserRequest(Join(args, <<" ">>))
       ELSE \E input \in RequestLines :
              LET userRequest == TrimSpace(input)
              IN IF userRequest = ExitWord
                 THEN /\ pc' = "exited"
                      /\ exitStatus' = <<0>>
                      /\ messages' = messages
                 ELSE AddUserRequest(userRequest)
    /\ UNCHANGED <<env, flags, args, client, command, fixResponse, response,
                   stdout, stderr, out, ncalls, launched, nlaunch, chain, gen,
                   wire, runErr>>

\* an unrecovered panic ends the process with status 2
Panic ==
    /\ pc' = "exited"
    /\ exitStatus' = <<2>>
    /\ out' = Report("panic", "nil", <<>>)

\* a request step that takes the user turn back when the provider fails
Generate_RollsBack ==
    /\ pc = "generating"
    /\ \E r \in Transport(client.kind) :
         LET g == GenerateCompletion(client, messages, r)
             cmdResponse == Unmarshal(g.text)
             cmd == TrimSpace(cmdResponse.Command)
         IN /\ gen' = g
            /\ wire' = r
            /\ ncalls' = ncalls + 1
            /\ IF g.panic
               THEN Panic /\ UNCHANGED <<messages, command>>
               ELSE IF g.err # "nil"
               THEN /\ out' = Report("gen_error", g.err, <<>>)
                    /\ pc' = "await_input"
                    /\ messages' = SubSeq(messages, 1, Len(messages) - 1)
                    /\ UNCHANGED <<command, exitStatus>>
               ELSE IF cmdResponse.err # "nil"
               THEN /\ out' = Report("parse_error", cmdResponse.err, <<g.text>>)
                    /\ pc' = "await_input"
                    /\ UNCHANGED <<messages, command, exitStatus>>
               ELSE /\ Len(messages) < MaxTurns
                    /\ command' = cmd
                    /\ out' = Report("display", "nil", <<cmd, cmdResponse.Description>>)
                    /\ messages' = Append(messages, Message("assistant", cmd))
                    /\ pc' = "await_confirm"
                    /\ exitStatus' = exitStatus
    /\ UNCHANGED <<env, flags, args, client, fixResponse, response, stdout,
                   stderr, launched, nlaunch, chain,
                   runErr>>

\* the provider call for a request, the parse of the reply and its display
Generate ==
    /\ pc = "generating"
    /\ \E r \in Transport(client.kind) :
         LET g == GenerateCompletion(client, messages, r)
             cmdResponse == Unmarshal(g.text)
             cmd == TrimSpace(cmdResponse.Command)
         IN /\ gen' = g
            /\ wire' = r
            /\ ncalls' = ncalls + 1
            /\ IF g.panic
               THEN Panic /\ UNCHANGED <<messages, command>>
               ELSE IF g.err # "nil"
               THEN /\ out' = Report("gen_error", g.err, <<>>)
                    /\ pc' = "await_input"
                    /\ UNCHANGED <<messages, command, exitStatus>>
               ELSE IF cmdResponse.err # "nil"
               THEN /\ out' = Report("parse_error", cmdResponse.err, <<g.text>>)
                    /\ pc' = "await_input"
                    /\ UNCHANGED <<messages, command, exitStatus>>
               ELSE /\ Len(messages) < MaxTurns
                    /\ command' = cmd
                    /\ out' = Report("display", "nil", <<cmd, cmdResponse.Description>>)
                    /\ messages' = Append(messages, Message("assistant", cmd))
                    /\ pc' = "await_confirm"
                    /\ exitStatus' = exitStatus
    /\ UNCHANGED <<env, flags, args, client, fixResponse, response, stdout,
                   stderr, launched, nlaunch, chain,
                   runErr>>

\* a confirmation that asks again on an unrecognised answer
Confirm_Reprompt ==
    /\ pc = "await_confirm"
    /\ \E line \in AnswerLines :
         LET a == ToLower(TrimSpace(line))
         IN /\ response' = a
            /\ IF a = <<"f">> THEN pc' = "await_input" /\ chain' = chain
               ELSE IF IsYes(a) THEN pc' = "execute" /\ chain' = 0
               ELSE pc' = "await_confirm" /\ chain' = chain
    /\ UNCHANGED <<env, flags, args, client, messages, command, fixResponse,
                   stdout, stderr, exitStatus, out, ncalls, launched, nlaunch, gen,
                   wire, runErr>>

\* "Run it now? [Y/n/f for fix]"
Confirm ==
    /\ pc = "await_confirm"
    /\ \E line \in AnswerLines :
         LET a == ToLower(TrimSpace(line))
         IN /\ response' = a
            /\ IF a = <<"f">> THEN pc' = "await_input" /\ chain' = chain
               ELSE IF IsYes(a) THEN pc' = "execute" /\ chain' = 0
               ELSE pc' = "await_input" /\ chain' = chain
    /\ UNCHANGED <<env, flags, args, client, messages, command, fixResponse,
                   stdout, stderr, exitStatus, out, ncalls, launched, nlaunch, gen,
                   wire, runErr>>

\* a run that asks for a fix on every error of cmd.Run()
Execute_AnyErrorAsksFix ==
    /\ pc = "execute"
    /\ \E o \in RunOutcomes :
         /\ launched' = ShellCommand(command)
         /\ nlaunch' = nlaunch + 1
         /\ stdout' = o.stdout
         /\ stderr' = o.stderr
         /\ runErr' = (IF o.kind = "ok" THEN "nil" ELSE o.kind)
         /\ IF o.kind # "ok"
            THEN /\ Len(messages) < MaxTurns
                 /\ out' = Report("exit_code", "nil", <<>>)
                 /\ messages' = Append(messages,
                                   Message("user", FixRequestText(o.stdout, o.stderr)))
                 /\ chain' = chain + 1
                 /\ pc' = "fix_generating"
            ELSE IF o.kind = "launch"
            THEN /\ out' = Report("exec_error", "launch", <<>>)
                 /\ pc' = "await_input"
                 /\ UNCHANGED <<messages, chain>>
            ELSE /\ pc' = "await_context"
                 /\ UNCHANGED <<messages, chain, out>>
    /\ UNCHANGED <<env, flags, args, client, command, fixResponse, response,
                   exitStatus, ncalls, gen,
                   wire>>

\* a run whose buffers are declared once, outside the retry label
Execute_SharedBuffers ==
    /\ pc = "execute"
    /\ \E o \in RunOutcomes :
         /\ launched' = ShellCommand(command)
         /\ nlaunch' = nlaunch + 1
         /\ stdout' = stdout \o o.stdout
         /\ stderr' = stderr \o o.stderr
         /\ runErr' = (IF o.kind = "ok" THEN "nil" ELSE o.kind)
         /\ IF o.kind = "exit" /\ o.code # 0
            THEN /\ Len(messages) < MaxTurns
                 /\ out' = Report("exit_code", "nil", <<>>)
                 /\ messages' = Append(messages,
                                   Message("user", FixRequestText(stdout \o o.stdout, stderr \o o.stderr)))
                 /\ chain' = chain + 1
                 /\ pc' = "fix_generating"
            ELSE IF o.kind = "launch"
            THEN /\ out' = Report("exec_error", "launch", <<>>)
                 /\ pc' = "await_input"
                 /\ UNCHANGED <<messages, chain>>
            ELSE /\ pc' = "await_context"
                 /\ UNCHANGED <<messages, chain, out>>
    /\ UNCHANGED <<env, flags, args, client, command, fixResponse, response,
                   exitStatus, ncalls, gen,
                   wire>>

\* executeCommand: the run in fresh buffers and the check of its exit code
Execute ==
    /\ pc = "execute"
    /\ \E o \in RunOutcomes :
         /\ launched' = ShellCommand(command)
         /\ nlaunch' = nlaunch + 1
         /\ stdout' = o.stdout
         /\ stderr' = o.stderr
         /\ runErr' = (IF o.kind = "ok" THEN "nil" ELSE o.kind)
         /\ IF o.kind = "exit" /\ o.code # 0
            THEN /\ Len(messages) < MaxTurns
                 /\ out' = Report("exit_code", "nil", <<>>)
                 /\ messages' = Append(messages,
                                   Message("user", FixRequestText(o.stdout, o.stderr)))
                 /\ chain' = chain + 1
                 /\ pc' = "fix_generating"
            ELSE IF o.kind = "launch"
            THEN /\ out' = Report("exec_error", "launch", <<>>)
                 /\ pc' = "await_input"
                 /\ UNCHANGED <<messages, chain>>
            ELSE /\ pc' = "await_context"
                 /\ UNCHANGED <<messages, chain, out>>
    /\ UNCHANGED <<env, flags, args, client, command, fixResponse, response,
                   exitStatus, ncalls, gen,
                   wire>>

\* a fix request that sends the failure alone, without the history before it
GenerateFix_SendsLastOnly ==
    /\ pc = "fix_generating"
    /\ \E r \in Transport(client.kind) :
         LET g == GenerateCompletion(client, SubSeq(messages, Len(messages), Len(messages)), r)
             fix == Unmarshal(g.text)
         IN /\ gen' = g
            /\ wire' = r
            /\ ncalls' = ncalls + 1
            /\ IF g.panic
               THEN Panic /\ UNCHANGED fixResponse
               ELSE IF g.err # "nil"
               THEN /\ out' = Report("gen_fix_error", g.err, <<>>)
                    /\ pc' = "await_input"
                    /\ UNCHANGED <<fixResponse, exitStatus>>
               ELSE IF fix.err # "nil"
               THEN /\ out' = Report("parse_fix_error", fix.err, <<>>)
                    /\ pc' = "await_input"
                    /\ UNCHANGED <<fixResponse, exitStatus>>
               ELSE /\ fixResponse' = fix
                    /\ out' = Report("fix_display", "nil", <<fix.Command, fix.Description>>)
                    /\ pc' = "await_fix_confirm"
                    /\ exitStatus' = exitStatus
    /\ UNCHANGED <<env, flags, args, client, messages, command, response, stdout,
                   stderr, launched, nlaunch, chain,
                   runErr>>

\* the provider call for a fix, the parse of the reply and its display
GenerateFix ==
    /\ pc = "fix_generating"
    /\ \E r \in Transport(client.kind) :
         LET g == GenerateCompletion(client, messages, r)
             fix == Unmarshal(g.text)
         IN /\ gen' = g
            /\ wire' = r
            /\ ncalls' = ncalls + 1
            /\ IF g.panic
               THEN Panic /\ UNCHANGED fixResponse
               ELSE IF g.err # "nil"
               THEN /\ out' = Report("gen_fix_error", g.err, <<>>)
                    /\ pc' = "await_input"
                    /\ UNCHANGED <<fixResponse, exitStatus>>
               ELSE IF fix.err # "nil"
               THEN /\ out' = Report("parse_fix_error", fix.err, <<>>)
                    /\ pc' = "await_input"
                    /\ UNCHANGED <<fixResponse, exitStatus>>
               ELSE /\ fixResponse' = fix
                    /\ out' = Report("fix_display", "nil", <<fix.Command, fix.Description>>)
                    /\ pc' = "await_fix_confirm"
                    /\ exitStatus' = exitStatus
    /\ UNCHANGED <<env, flags, args, client, messages, command, response, stdout,
                   stderr, launched, nlaunch, chain,
                   runErr>>

\* an accepted fix that is run without replacing the command
ConfirmFix_KeepsCommand ==
    /\ pc = "await_fix_confirm"
    /\ \E line \in AnswerLines :
         LET fixUserResponse == ToLower(TrimSpace(line))
         IN /\ response' = fixUserResponse
            /\ IF IsYes(fixUserResponse)
               THEN pc' = "execute"
               ELSE pc' = "await_input"
    /\ UNCHANGED <<env, flags, args, client, messages, command, fixResponse, stdout,
                   stderr, exitStatus, out, ncalls, launched, nlaunch, chain, gen,
                   wire, runErr>>

\* a fix prompt that stops retrying after two failed runs
ConfirmFix_CapsRetries ==
    /\ pc = "await_fix_confirm"
    /\ \E line \in AnswerLines :
         LET fixUserResponse == ToLower(TrimSpace(line))
         IN /\ response' = fixUserResponse
            /\ IF IsYes(fixUserResponse) /\ chain < 2
               THEN /\ command' = TrimSpace(fixResponse.Command)
                    /\ pc' = "execute"
               ELSE /\ command' = command
                    /\ pc' = "await_input"
    /\ UNCHANGED <<env, flags, args, client, messages, fixResponse, stdout, stderr,
                   exitStatus, out, ncalls, launched, nlaunch, chain, gen,
                   wire, runErr>>

\* "Run the fixed command? [Y/n]"
ConfirmFix ==
    /\ pc = "await_fix_confirm"
    /\ \E line \in AnswerLines :
         LET fixUserResponse == ToLower(TrimSpace(line))
         IN /\ response' = fixUserResponse
            /\ IF IsYes(fixUserResponse)
               THEN /\ command' = TrimSpace(fixResponse.Command)
                    /\ pc' = "execute"
               ELSE /\ command' = command
                    /\ pc' = "await_input"
    /\ UNCHANGED <<env, flags, args, client, messages, fixResponse, stdout, stderr,
                   exitStatus, out, ncalls, launched, nlaunch, chain, gen,
                   wire, runErr>>

\* an opt-in that puts the output in the place of the last turn
AddContext_ReplacesLast ==
    /\ pc = "await_context"
    /\ \E line \in AnswerLines :
         LET contextResponse == ToLower(TrimSpace(line))
         IN /\ response' = contextResponse
            /\ IF IsOptIn(contextResponse)
               THEN /\ Len(messages) < MaxTurns
                    /\ messages' = [messages EXCEPT ![Len(messages)] =
                                      Message("user", OutputContextText(stdout))]
                    /\ out' = Report("context_added", "nil", <<>>)
               ELSE /\ messages' = messages
                    /\ out' = out
    /\ pc' = "await_input"
    /\ UNCHANGED <<env, flags, args, client, command, fixResponse, stdout, stderr,
                   exitStatus, ncalls, launched, nlaunch, chain, gen,
                   wire, runErr>>

------------------------------------------------------------------------

\* an opt-in that records the output as a turn of the assistant
AddContext_AsAssistant ==
    /\ pc = "await_context"
    /\ \E line \in AnswerLines :
         LET contextResponse == ToLower(TrimSpace(line))
         IN /\ response' = contextResponse
            /\ IF IsOptIn(contextResponse)
               THEN /\ Len(messages) < MaxTurns
                    /\ messages' = Append(messages,
                                      Message("assistant", OutputContextText(stdout)))
                    /\ out' = Report("context_added", "nil", <<>>)
               ELSE /\ messages' = messages
                    /\ out' = out
    /\ pc' = "await_input"
    /\ UNCHANGED <<env, flags, args, client, command, fixResponse, stdout, stderr,
                   exitStatus, ncalls, launched, nlaunch, chain, gen,
                   wire, runErr>>

------------------------------------------------------------------------

\* "Add command output to conversation context? [y/N]"
AddContext ==
    /\ pc = "await_context"
    /\ \E line \in AnswerLines :
         LET contextResponse == ToLower(TrimSpace(line))
         IN /\ response' = contextResponse
            /\ IF IsOptIn(contextResponse)
               THEN /\ Len(messages) < MaxTurns
                    /\ messages' = Append(messages,
                                      Message("user", OutputContextText(stdout)))
                    /\ out' = Report("context_added", "nil", <<>>)
               ELSE /\ messages' = messages
                    /\ out' = out
    /\ pc' = "await_input"
    /\ UNCHANGED <<env, flags, args, client, command, fixResponse, stdout, stderr,
                   exitStatus, ncalls, launched, nlaunch, chain, gen,
                   wire, runErr>>

-----------------------------------------------------------------------------
(* specifications *)

InitLocals ==
    /\ client = NoClient
    /\ messages = <<>>
    /\ pc = "init"
    /\ command = <<>>
    /\ fixResponse = ZeroResponse
    /\ response = <<>>
    /\ stdout = <<>>
    /\ stderr = <<>>
    /\ exitStatus = <<>>
    /\ out = Report("none", "nil", <<>>)
    /\ ncalls = 0
    /\ launched = <<>>
    /\ nlaunch = 0
    /\ chain = 0
    /\ gen = NoResult
    /\ wire = NoTransport
    /\ runErr = "none"

\* the invocations the loop is explored from: each provider by default and
\* by flag, a missing request, a missing configuration
Invocations ==
    { [env |-> e, flags |-> f, args |-> a] :
        e \in { x \in Environments : x["ANTHROPIC_API_KEY"] = "" /\ x["OLLAMA_MODEL"] = "" },
        f \in { x \in FlagSets : ~x.forceOpenAI /\ ~x.forceOllama },
        a \in ArgSets }

Init ==
    /\ \E i \in Invocations : env = i.env /\ flags = i.flags /\ args = i.args
    /\ InitLocals

Next ==
    \/ Startup
    \/ TakeRequest
    \/ Generate
    \/ Confirm
    \/ Execute
    \/ GenerateFix
    \/ ConfirmFix
    \/ AddContext

\* the whole program
Spec == Init /\ [][Next]_vars

\* every invocation, up to the start of the loop
InitResolve ==
    /\ env \in Environments
    /\ flags \in FlagSets
    /\ args \in ArgSets
    /\ InitLocals

NextResolve == Startup

\* provider resolution
SpecResolve == InitResolve /\ [][NextResolve]_vars

\* histories a provider is called with
Histories ==
    { <<>>,
      <<Message("user", PromptText(<<"a">>))>>,
      <<Message("user", PromptText(<<"a">>)), Message("assistant", <<"a">>)>>,
      <<Message("user", PromptText(<<>>)), Message("user", PromptText(<<"b">>))>>,
      <<Message("user", PromptText(<<"a">>)), Message("assistant", <<"a">>),
        Message("user", FixRequestText(<<"o">>, <<"e">>))>>,
      <<Message("system", <<"s">>), Message("user", PromptText(<<"a">>))>> }

InitGen ==
    /\ env = [n \in EnvNames |-> ""]
    /\ flags = [forceOpenAI |-> FALSE, forceOllama |-> FALSE, model |-> ""]
    /\ args = <<>>
    /\ client \in { OpenAIClient("k", ""), AnthropicClient("k", ""), OllamaClient("u", "m") }
    /\ messages \in Histories
    /\ pc = "gen_call"
    /\ command = <<>>
    /\ fixResponse = ZeroResponse
    /\ response = <<>>
    /\ stdout = <<>>
    /\ stderr = <<>>
    /\ exitStatus = <<>>
    /\ out = Report("none", "nil", <<>>)
    /\ ncalls = 0
    /\ launched = <<>>
    /\ nlaunch = 0
    /\ chain = 0
    /\ gen = NoResult
    /\ wire = NoTransport
    /\ runErr = "none"

\* one call of Client.GenerateCompletion
GenCall ==
    /\ pc = "gen_call"
    /\ \E r \in Transport(client.kind) :
         /\ gen' = GenerateCompletion(client, messages, r)
         /\ wire' = r
    /\ ncalls' = ncalls + 1
    /\ pc' = "gen_done"
    /\ UNCHANGED <<env, flags, args, client, messages, command, fixResponse,
                   response, stdout, stderr, exitStatus, out, launched, nlaunch, chain,
                   runErr>>

NextGen == GenCall

\* the provider variants as functions of history and transport
SpecGen == InitGen /\ [][NextGen]_vars

-----------------------------------------------------------------------------
(* properties *)

\* the provider the documented precedence selects: Anthropic, then OpenAI,
\* then Ollama, among those whose configuration is present
DocumentedChoice ==
    IF env["ANTHROPIC_API_KEY"] # "" THEN "Anthropic"
    ELSE IF env["OPENAI_API_KEY"] # "" THEN "OpenAI"
    ELSE IF env["OLLAMA_API_BASE"] # "" /\ (flags.model # "" \/ env["OLLAMA_MODEL"] # "")
    THEN "Ollama"
    ELSE "none"

NoProviderForced == ~flags.forceOpenAI /\ ~flags.forceOllama

\* C1: with no provider forced, once resolution has run for an invocation
\* with a request, the client is of the highest-precedence provider
\* (Anthropic over OpenAI over Ollama) whose configuration is present.
C1_EnvironmentPrecedence ==
    (pc # "init" /\ Len(args) >= 1 /\ NoProviderForced) => client.kind = DocumentedChoice

\* C2: a GenerateCompletion call that returns, of any variant and for any
\* history, returns a non-empty text with a nil error or returns an error.
C2_NeverEmptyWithoutError ==
    (pc = "gen_done" /\ ~gen.panic) =>
        \/ gen.err = "nil" /\ gen.text # <<>>
        \/ gen.err # "nil"

\* the answers of the user that confirm a run
Accepting == { <<>>, <<"y">>, <<"y", "e", "s">> }

\* C3: the step that enters execution is the reading of an answer at one of
\* the two confirmation prompts, and that answer is empty, "y" or "yes";
\* and every subprocess launched runs, through the shell, the command that
\* was last displayed, after such an answer.
C3_RunOnlyAfterYes ==
    [][ /\ pc' = "execute" =>
            /\ pc \in {"await_confirm", "await_fix_confirm"}
            /\ response' \in Accepting
        /\ nlaunch' # nlaunch =>
            /\ pc = "execute"
            /\ response \in Accepting
            /\ out.kind \in {"display", "fix_display"}
            /\ launched' = << <<"bash">>, <<"-c">>, TrimSpace(out.shown[1]) >> ]_vars

\* a command was run after "Y" was answered at a prompt
C3_Witness ==
    /\ nlaunch = 2
    /\ response = <<"y">>
    /\ launched = << <<"bash">>, <<"-c">>, <<"b">> >>


\* the last turn of the history is the assistant turn of the displayed command
LastTurnIsDisplayed ==
    /\ Len(messages) > 0
    /\ out.kind = "display"
    /\ messages[Len(messages)] = [Role |-> "assistant", Content |-> out.shown[1]]

\* the next request is read at the follow-up prompt
AwaitsFollowUp(p, h) == p = "await_input" /\ ~(Len(h) = 0 /\ Len(OsArgs) > 1)

\* C4: at "Run it now?", reading "f" or any answer other than empty, "y" or
\* "yes" launches no subprocess, calls no provider and leaves the history as
\* it was, with the displayed command as its last (assistant) turn, and the
\* loop goes to the follow-up request prompt.  Declining at "Run the fixed
\* command?" has the same frame.
C4_DeclineChangesNothing ==
    [][ /\ (pc = "await_confirm" /\ response' \notin Accepting) =>
            /\ nlaunch' = nlaunch
            /\ ncalls' = ncalls
            /\ messages' = messages
            /\ LastTurnIsDisplayed
            /\ AwaitsFollowUp(pc', messages')
        /\ (pc = "await_fix_confirm" /\ response' \notin Accepting) =>
            /\ nlaunch' = nlaunch
            /\ ncalls' = ncalls
            /\ messages' = messages
            /\ AwaitsFollowUp(pc', messages') ]_vars

\* "n" was answered to "Run it now?" and the loop awaits the next request
C4_Witness ==
    /\ pc = "await_input"
    /\ response = <<"n">>
    /\ nlaunch = 0
    /\ LastTurnIsDisplayed

\* the reply of the last provider call does not parse
ReplyUnparseable(g) ==
    /\ ~g.panic
    /\ g.err = "nil"
    /\ g.text \in {FencedReply, TypeReply, <<>>}

\* C5: when the reply to a request or to a fix request is not parseable
\* JSON, the step that receives it appends nothing to the history, launches
\* nothing and leaves the loop at the follow-up request prompt.
C5_UnparseableReplyNoTurn ==
    [][ (pc \in {"generating", "fix_generating"} /\ ReplyUnparseable(gen')) =>
            /\ messages' = messages
            /\ nlaunch' = nlaunch
            /\ command' = command
            /\ AwaitsFollowUp(pc', messages') ]_vars

\* an unparseable fix reply was received after a failed run
C5_Witness ==
    /\ pc = "await_input"
    /\ out.kind = "parse_fix_error"
    /\ ReplyUnparseable(gen)
    /\ messages[Len(messages)].Role = "user"
    /\ chain = 1

\* C6: every report of a parse error, for a request or for a fix, shows the
\* raw reply text.
C6_ParseErrorShowsRaw ==
    out.kind \in {"parse_error", "parse_fix_error"} => out.shown = <<gen.text>>

\* C7: a step that parses a reply and displays its command appends the
\* command text as an assistant turn.
C7_DisplayedCommandAppended ==
    [][ (ncalls' # ncalls /\ out'.kind \in {"display", "fix_display"}) =>
            messages' = Append(messages,
                          [Role |-> "assistant", Content |-> TrimSpace(out'.shown[1])]) ]_vars


\* part occurs in text as a contiguous run of tokens
RECURSIVE OccursFrom(_, _, _)
OccursFrom(text, part, i) ==
    IF i + Len(part) > Len(text) THEN FALSE
    ELSE IF SubSeq(text, i + 1, i + Len(part)) = part THEN TRUE
    ELSE OccursFrom(text, part, i + 1)

Embeds(text, part) == OccursFrom(text, part, 0)

\* C8: the step in which a run reports a non-zero exit code appends one user
\* turn that embeds the captured stdout and stderr and asks for a fix, and
\* goes to the fix request; the step after it reads no input: it calls the
\* provider with the extended history.
C8_FailureRequestsFix ==
    [][ /\ (nlaunch' # nlaunch /\ out'.kind = "exit_code") =>
            /\ Len(messages') = Len(messages) + 1
            /\ SubSeq(messages', 1, Len(messages)) = messages
            /\ messages'[Len(messages')].Role = "user"
            /\ Embeds(messages'[Len(messages')].Content, <<"stdout:", " ">> \o stdout')
            /\ Embeds(messages'[Len(messages')].Content, <<"stderr:", " ">> \o stderr')
            /\ Embeds(messages'[Len(messages')].Content, <<"PLEASE_FIX">>)
            /\ pc' = "fix_generating"
        /\ pc = "fix_generating" =>
            /\ ncalls' = ncalls + 1
            /\ gen'.req = messages
            /\ response' = response
            /\ messages' = messages ]_vars

\* the provider was called with a history that ends in the fix request for
\* a run that printed "o" and "e"
C8_Witness ==
    /\ ncalls = 2
    /\ out.kind = "fix_display"
    /\ stdout = <<"o">>
    /\ stderr = <<"e">>
    /\ Len(gen.req) = 3
    /\ Embeds(gen.req[3].Content, <<"stdout:", " ", "o", "\n", "stderr:", " ", "e">>)

\* C9: accepting the offered fix enters execution with the command of the
\* fix reply, without touching the history, and the run that follows
\* launches that command.
C9_AcceptedFixIsRun ==
    [][ /\ (pc = "await_fix_confirm" /\ response' \in Accepting) =>
            /\ pc' = "execute"
            /\ out.kind = "fix_display"
            /\ command' = TrimSpace(out.shown[1])
            /\ messages' = messages
            /\ ncalls' = ncalls
        /\ (pc = "execute" /\ out.kind = "fix_display") =>
            /\ nlaunch' = nlaunch + 1
            /\ launched' = << <<"bash">>, <<"-c">>, TrimSpace(out.shown[1]) >> ]_vars

\* the command "a" failed, the fix "b" was offered and accepted, and "b" ran
C9_Witness ==
    /\ nlaunch = 2
    /\ out.kind \in {"fix_display", "exit_code"}
    /\ Len(messages) >= 3
    /\ messages[2] = [Role |-> "assistant", Content |-> <<"a">>]
    /\ launched = << <<"bash">>, <<"-c">>, <<"b">> >>

ChainSteps == {"execute", "fix_generating", "await_fix_confirm"}

\* a fix-retry chain is under way: a run has failed and its fix is pending
InChain(p, n) == n >= 1 /\ p \in ChainSteps

\* C10 as stated: a chain ends, with the program still running, only when
\* the user declines the offered fix or a run exits with code 0.
C10_EndsOnlyByDeclineOrSuccess ==
    [][ (InChain(pc, chain) /\ ~InChain(pc', chain') /\ pc' # "exited") =>
            \/ pc = "await_fix_confirm" /\ response' \notin Accepting
            \/ pc = "execute" /\ pc' = "await_context" ]_vars

\* C10 as amended: a chain has no limit of its own (an accepted fix is run
\* whatever the number of failed runs so far); it ends when the user
\* declines the offered fix, when a run exits with code 0, when the fix
\* request fails (provider error, unparseable reply, panic) or when the
\* subprocess cannot be launched.
C10_ChainEnds ==
    [][ /\ (InChain(pc, chain) /\ ~InChain(pc', chain')) =>
            \/ pc = "await_fix_confirm" /\ response' \notin Accepting
            \/ pc = "execute" /\ pc' = "await_context"
            \/ pc = "fix_generating" /\ gen'.err # "nil" /\ out'.kind = "gen_fix_error"
            \/ pc = "fix_generating" /\ out'.kind = "parse_fix_error"
            \/ pc = "fix_generating" /\ gen'.panic /\ pc' = "exited"
            \/ pc = "execute" /\ out'.kind = "exec_error"
        /\ (pc = "await_fix_confirm" /\ response' \in Accepting) =>
            InChain(pc', chain') /\ pc' = "execute" /\ chain' = chain ]_vars

\* a chain of two failed runs was ended by a provider error
C10_Witness ==
    /\ chain = 2
    /\ nlaunch = 2
    /\ pc = "await_input"
    /\ out.kind = "gen_fix_error"


\* the answers of the user that add the output to the context
OptingIn == { <<"y">>, <<"y", "e", "s">> }

\* C11: after a run with a nil error (exit code 0), the answer at the opt-in
\* prompt appends the captured stdout as one user turn when it is "y" or
\* "yes" and leaves the history as it is otherwise; either way no provider
\* is called, nothing is launched and the loop goes to the follow-up prompt.
C11_OutputAddedOnOptIn ==
    [][ /\ (pc = "execute" /\ runErr' = "nil") => pc' = "await_context" /\ messages' = messages
        /\ pc = "await_context" =>
            /\ runErr = "nil"
            /\ IF response' \in OptingIn
               THEN messages' = Append(messages,
                        [Role |-> "user", Content |-> <<"Command output:", "\n">> \o stdout])
               ELSE messages' = messages
            /\ ncalls' = ncalls
            /\ nlaunch' = nlaunch
            /\ AwaitsFollowUp(pc', messages') ]_vars

\* the output "o" of a successful run was added to the context on "yes"
C11_Witness ==
    /\ pc = "await_input"
    /\ runErr = "nil"
    /\ response = <<"y", "e", "s">>
    /\ stdout = <<"o">>
    /\ messages[Len(messages)] =
         [Role |-> "user", Content |-> <<"Command output:", "\n", "o">>]

\* C12: a step at the follow-up prompt either ends the process with status
\* 0, leaving history, provider calls and launches as they were, or appends
\* a request that is not "exit" and goes on to the provider; so reading
\* "exit" ends the loop.
C12_ExitEndsLoop ==
    [][ pc = "await_input" =>
            \/ /\ pc' = "exited"
               /\ exitStatus' = <<0>>
               /\ Len(messages) > 0
               /\ messages' = messages
               /\ ncalls' = ncalls
               /\ nlaunch' = nlaunch
            \/ /\ pc' = "generating"
               /\ exitStatus' = <<>>
               /\ Len(messages') = Len(messages) + 1
               /\ messages'[Len(messages')].Content #
                    <<"PROMPT", "Request:", " ", "e", "x", "i", "t">> ]_vars

\* "exit" was read at the follow-up prompt after a declined command
C12_Witness ==
    /\ pc = "exited"
    /\ exitStatus = <<0>>
    /\ Len(messages) = 2
    /\ ncalls = 1
    /\ nlaunch = 0

\* no provider can be resolved from the flags and the environment
Unresolvable ==
    \/ flags.forceOpenAI /\ flags.forceOllama
    \/ flags.forceOpenAI /\ env["OPENAI_API_KEY"] = ""
    \/ flags.forceOllama /\ env["OLLAMA_API_BASE"] = ""
    \/ flags.forceOllama /\ flags.model = "" /\ env["OLLAMA_MODEL"] = ""
    \/ /\ NoProviderForced
       /\ env["OPENAI_API_KEY"] = ""
       /\ env["OLLAMA_API_BASE"] = "" \/ (flags.model = "" /\ env["OLLAMA_MODEL"] = "")

\* C13: once the start has run, an invocation without a request or without
\* a resolvable provider has reported the error and exited with status 1,
\* with an empty history, no provider call and no launch; no other
\* invocation ever exits with status 1.
C13_FatalBeforeLoop ==
    pc # "init" =>
        IF Len(args) < 1 \/ Unresolvable
        THEN /\ pc = "exited"
             /\ exitStatus = <<1>>
             /\ out.kind = (IF Len(args) < 1 THEN "usage" ELSE "config_error")
             /\ messages = <<>>
             /\ ncalls = 0
             /\ nlaunch = 0
        ELSE exitStatus # <<1>> /\ client.kind # "none"

\* Ollama was forced without a model and the process exited with status 1
C13_Witness ==
    /\ pc = "exited"
    /\ exitStatus = <<1>>
    /\ out.kind = "config_error"
    /\ flags.forceOllama
    /\ env["OLLAMA_API_BASE"] # ""
    /\ Len(args) >= 1


\* the provider call returned an error
CallFailed(g) == ~g.panic /\ g.err # "nil"

\* C14: a provider call that returns an error, for a request or for a fix,
\* is reported with that error and leaves the history as it is, ending in the
\* user turn appended before the call, with the loop at the follow-up
\* prompt; and every request put on the wire extends the one before it, so
\* that turn is sent again with the next request.
C14_FailedCallKeepsHistory ==
    [][ /\ (pc \in {"generating", "fix_generating"} /\ CallFailed(gen')) =>
            /\ messages' = messages
            /\ messages[Len(messages)].Role = "user"
            /\ out'.kind = (IF pc = "generating" THEN "gen_error" ELSE "gen_fix_error")
            /\ out'.err = gen'.err
            /\ nlaunch' = nlaunch
            /\ AwaitsFollowUp(pc', messages')
        /\ ncalls' # ncalls =>
            /\ Len(gen'.req) > Len(gen.req)
            /\ SubSeq(gen'.req, 1, Len(gen.req)) = gen.req ]_vars

\* after a failed call the next request was sent with the turn of the
\* failed one before it, and failed again
C14_Witness ==
    /\ ncalls = 2
    /\ CallFailed(gen)
    /\ pc = "await_input"
    /\ Len(messages) = 2
    /\ gen.req[1].Content = <<"PROMPT", "Request:", " ", "a", " ", "b">>
    /\ gen.req[2].Role = "user"

\* the contents of the records of lines i.., in order, up to and including
\* the first record that is done
RECURSIVE ContentUpToDone(_, _)
ContentUpToDone(lines, i) ==
    IF i > Len(lines) THEN <<>>
    ELSE IF lines[i].done THEN lines[i].content
    ELSE lines[i].content \o ContentUpToDone(lines, i + 1)

\* the stream has a done record, with no undecodable line before the first
DoneTerminated(lines) ==
    \E k \in DOMAIN lines :
        /\ lines[k].raw = "record" /\ lines[k].done
        /\ \A j \in 1..(k - 1) : lines[j].raw # "bad" /\ ~lines[j].done

\* C15: the Ollama variant, on a 200 response whose stream is terminated by
\* a done record, returns exactly the concatenation in stream order of the
\* contents up to and including that record, and fails when it is empty.
C15_StreamConcatenation ==
    (pc = "gen_done" /\ client.kind = "Ollama" /\ ~wire.doErr /\ wire.status = 200
        /\ DoneTerminated(wire.lines)) =>
        LET expected == ContentUpToDone(wire.lines, 1)
        IN /\ ~gen.panic
           /\ IF expected = <<>>
              THEN gen.err # "nil"
              ELSE gen.err = "nil" /\ gen.text = expected

\* three fragments, the last in the done record, gave the whole reply
C15_Witness ==
    /\ pc = "gen_done"
    /\ client.kind = "Ollama"
    /\ Len(wire.lines) = 3
    /\ wire.lines[3].done /\ wire.lines[3].content # <<>>
    /\ gen.err = "nil"
    /\ gen.text = <<"{", "command", "\"", "a", "\"", ",", "description", "\"", "d", "\"", "}">>

\* C16: the request of the command line is the first turn of the history
\* and no other: every later request turn was read from standard input.
C16_ArgumentsUsedOnce ==
    \A i \in DOMAIN messages :
        (messages[i].Content = <<"PROMPT", "Request:", " ", "a", " ", "b">>) <=> (i = 1)

\* the first reply did not parse and the next request came from the prompt
C16_Witness ==
    /\ Len(messages) = 3
    /\ ncalls = 2
    /\ messages[2] = [Role |-> "user", Content |-> <<"PROMPT", "Request:", " ", "b">>]
    /\ messages[3].Role = "assistant"
    /\ out.kind = "display"


\* C17: in every step the old history is a prefix of the new one.
C17_HistoryAppendOnly ==
    [][ /\ Len(messages') >= Len(messages)
        /\ SubSeq(messages', 1, Len(messages)) = messages ]_vars

\* a history grown by a request, a command, a fix request and the output
\* of the run of the fix
C17_Witness ==
    /\ Len(messages) = 4
    /\ messages[2].Role = "assistant"
    /\ messages[3].Content[1] = "FAILED"
    /\ messages[4].Content[1] = "Command output:"

\* C18: a run whose error is not an exit status is reported as an execution
\* error, sends no fix request, leaves the history as it is and leaves the
\* loop at the follow-up prompt.
C18_LaunchFailureReported ==
    [][ (pc = "execute" /\ runErr' = "launch") =>
            /\ out'.kind = "exec_error"
            /\ messages' = messages
            /\ ncalls' = ncalls
            /\ chain' = chain
            /\ AwaitsFollowUp(pc', messages') ]_vars

\* the accepted fix could not be launched
C18_Witness ==
    /\ runErr = "launch"
    /\ nlaunch = 2
    /\ chain = 1
    /\ pc = "await_input"
    /\ out.kind = "exec_error"

\* the start ended in a configuration error
ConfigFailed == pc = "exited" /\ exitStatus = <<1>> /\ out.kind = "config_error"

\* C19: once resolution has run with a provider forced, the client is of
\* that provider, with its configuration present, or resolution failed;
\* with both providers forced it failed.
C19_ForcedProviderOrError ==
    (pc # "init" /\ Len(args) >= 1) =>
        /\ (flags.forceOpenAI /\ flags.forceOllama) => ConfigFailed
        /\ (flags.forceOpenAI /\ ~flags.forceOllama) =>
              IF env["OPENAI_API_KEY"] # ""
              THEN client.kind = "OpenAI" /\ client.endpoint = env["OPENAI_API_KEY"]
              ELSE ConfigFailed
        /\ (flags.forceOllama /\ ~flags.forceOpenAI) =>
              IF env["OLLAMA_API_BASE"] # "" /\ (flags.model # "" \/ env["OLLAMA_MODEL"] # "")
              THEN client.kind = "Ollama" /\ client.endpoint = env["OLLAMA_API_BASE"]
              ELSE ConfigFailed

\* OpenAI was forced without its key while Ollama was configured, and
\* resolution failed
C19_Witness ==
    /\ ConfigFailed
    /\ flags.forceOpenAI /\ ~flags.forceOllama
    /\ env["OPENAI_API_KEY"] = ""
    /\ env["OLLAMA_API_BASE"] # "" /\ env["OLLAMA_MODEL"] # ""

\* a model for Ollama is available from --model or OLLAMA_MODEL
OllamaModelAvailable == flags.model # "" \/ env["OLLAMA_MODEL"] # ""

Calling == pc \in {"generating", "fix_generating"}

\* C21: every step that calls the provider passes it the whole current
\* history, which is non-empty and ends in a user turn; and that turn was
\* appended by the step just before, the one that led to the call.
C21_CallSendsFullHistory ==
    [][ /\ (ncalls' # ncalls) =>
              /\ Calling
              /\ gen'.req = messages
              /\ Len(messages) > 0
              /\ messages[Len(messages)].Role = "user"
        /\ (pc' \in {"generating", "fix_generating"}) =>
              /\ Len(messages') = Len(messages) + 1
              /\ SubSeq(messages', 1, Len(messages)) = messages
              /\ messages'[Len(messages')].Role = "user" ]_vars

\* the fix request went out behind the request and the command it is about
C21_Witness ==
    /\ ncalls = 2
    /\ chain = 1
    /\ Len(gen.req) = 3
    /\ gen.req[2].Role = "assistant"
    /\ gen.req[3].Content[1] = "FAILED"
    /\ gen.req = messages

\* C22 as stated: no two neighbouring turns of the history have the same
\* role, and the first turn is a user turn.
C22_StrictAlternation ==
    /\ (Len(messages) > 0 => messages[1].Role = "user")
    /\ \A i \in 1..(Len(messages) - 1) : messages[i].Role # messages[i + 1].Role

\* C22 amended: the history starts with a user turn and every assistant
\* turn directly follows a user turn, so no two assistant turns are
\* neighbours; user turns may be neighbours.
C22_AssistantFollowsUser ==
    /\ (Len(messages) > 0 => messages[1].Role = "user")
    /\ \A i \in DOMAIN messages :
          messages[i].Role = "assistant" => (i > 1 /\ messages[i - 1].Role = "user")
    /\ \A i \in DOMAIN messages : messages[i].Role \in {"user", "assistant"}

\* a request whose call failed, then a request answered with a command:
\* two user turns side by side, then an assistant turn
C22_Witness ==
    /\ Len(messages) = 3
    /\ messages[1].Role = "user"
    /\ messages[2].Role = "user"
    /\ messages[3].Role = "assistant"

\* C23: every run leaves in the buffers the output of that run alone; the
\* fix request appended after a failed run embeds exactly that output, and
\* the context turn appended after a successful run holds exactly the
\* standard output of that run.
C23_FreshBuffers ==
    [][ /\ (pc = "execute") =>
              \E o \in RunOutcomes :
                  /\ runErr' = (IF o.kind = "ok" THEN "nil" ELSE o.kind)
                  /\ stdout' = o.stdout
                  /\ stderr' = o.stderr
                  /\ (pc' = "fix_generating") =>
                        messages'[Len(messages')].Content = FixRequestText(o.stdout, o.stderr)
        /\ (pc = "await_context" /\ Len(messages') > Len(messages)) =>
              /\ runErr = "nil"
              /\ \E o \in RunOutcomes : o.kind = "ok" /\ stdout = o.stdout
              /\ messages'[Len(messages')].Content = OutputContextText(stdout) ]_vars

\* the first run failed after writing "o"; the fix ran without output, and
\* the context turn holds no output
C23_Witness ==
    /\ nlaunch = 2
    /\ chain = 1
    /\ Len(messages) = 4
    /\ messages[3].Content = FixRequestText(<<"o">>, <<"e">>)
    /\ messages[4].Content = OutputContextText(<<>>)

\* C24: once the loop has started, the process ends only by reading "exit"
\* at the request prompt, with exit code 0.
C24_EndsOnlyByExit ==
    [][ (pc # "init" /\ pc' = "exited") =>
            /\ pc = "await_input"
            /\ exitStatus' = <<0>> ]_vars

\* the stream holds an undecodable line that the scanner reaches
BadLineReached(lines) ==
    \E k \in DOMAIN lines :
        /\ lines[k].raw = "bad"
        /\ \A j \in 1..(k - 1) : lines[j].raw # "bad" /\ ~lines[j].done

\* the stream ends with no done record and no undecodable line
EndsWithoutDone(lines) ==
    \A k \in DOMAIN lines : lines[k].raw # "bad" /\ ~lines[k].done

\* C25: the Ollama variant, on a 200 response whose stream reaches its end
\* (the scanner reporting no read error) without a done record, returns the
\* concatenation of the fragments with no error when it is non-empty; on a
\* stream with an undecodable line it returns an error and no text,
\* whatever was accumulated.
C25_NoDoneStillReturns ==
    (pc = "gen_done" /\ client.kind = "Ollama" /\ ~wire.doErr /\ wire.status = 200) =>
        /\ (EndsWithoutDone(wire.lines) /\ ~wire.scanErr
              /\ ContentUpToDone(wire.lines, 1) # <<>>) =>
              gen.err = "nil" /\ gen.text = ContentUpToDone(wire.lines, 1)
        /\ BadLineReached(wire.lines) =>
              gen.err = "error decoding response line" /\ gen.text = <<>>

\* two fragments and no done record gave the whole reply
C25_Witness ==
    /\ pc = "gen_done"
    /\ client.kind = "Ollama"
    /\ Len(wire.lines) = 3
    /\ EndsWithoutDone(wire.lines)
    /\ ~wire.scanErr
    /\ gen.err = "nil"
    /\ gen.text = <<"{", "command", "\"", "a", "\"", ",", "description", "\"", "d", "\"", "}">>

====
